---- MODULE Spec2Model ----
(***************************************************************************)
(* Model of oauthlib/oauth2/draft25/grant_types.py: the shared             *)
(* authorization request validator (AuthorizationBase.validate_request),   *)
(* the Authorization Code grant and the Implicit grant.                    *)
(*                                                                         *)
(* Python values are represented as follows.                               *)
(*   - text values (client_id, response_type, state, code, grant_type) are *)
(*     strings; the Python value None is the string None below, so that    *)
(*     str(None) is the value itself; None and the empty string are the    *)
(*     two falsy text values.                                              *)
(*   - a URI is a record [scheme, hier]; an absent redirect_uri (None) is  *)
(*     NoURI, the URI with no scheme and no hierarchical part.             *)
(*   - a scope list is a sequence of strings; an absent scope list and an  *)
(*     empty one are both <<>> (the code only tests their truth value).    *)
(*   - a dict is a function from its keys to its values; items() lists the *)
(*     pairs in any order of the keys (hash order in Python 2, insertion   *)
(*     order from 3.7 on), so Items(d) is the set of the possible lists.   *)
(*   - generate_token() returns a string never returned before.            *)
(***************************************************************************)
EXTENDS Integers, Sequences, FiniteSets, TLC

\* ------------------------------------------------------------------ bounds
\* a grant or token is created only while generate_token() has returned fewer
\* than this many strings: in behaviours of Spec ...
MaxTokens == 1
\* ... and in behaviours of SpecConc
MaxConcTokens == 4

\* ------------------------------------------------------------ Python values
None == "None"

Falsy(v) == v = None \/ v = ""

NoURI == [scheme |-> "", hier |-> ""]
AppCb == [scheme |-> "https", hier |-> "//app.example/cb"]
OtherCb == [scheme |-> "https", hier |-> "//other.example/cb"]
EvilCb == [scheme |-> "https", hier |-> "//evil.example/cb"]
RelCb == [scheme |-> "", hier |-> "/cb"]

\* truth value of a redirect_uri (None and u'' are falsy)
FalsyUri(u) == u.scheme = "" /\ u.hier = ""

Digit == <<"0", "1", "2", "3", "4", "5", "6", "7", "8", "9">>

RECURSIVE NatToStr(_)
\* str(n) for a natural number, as urlencode and json.dumps render it
NatToStr(n) == IF n < 10 THEN Digit[n + 1]
               ELSE NatToStr(n \div 10) \o Digit[(n % 10) + 1]

\* the n-th string generate_token() returns
generate_token(n) == "tok" \o NatToStr(n)

RECURSIVE Join(_)
\* ' '.join(scopes)
Join(scopes) == IF Len(scopes) = 0 THEN ""
                ELSE IF Len(scopes) = 1 THEN scopes[1]
                ELSE scopes[1] \o " " \o Join(Tail(scopes))

EmptyDict == [k \in {} |-> None]

\* dict.items(): the (key, value) pairs of d, keys taken in the order of keys
RECURSIVE ItemsIn(_, _)
ItemsIn(d, keys) == IF Len(keys) = 0 THEN <<>>
                    ELSE (IF Head(keys) \in DOMAIN d
                          THEN << <<Head(keys), d[Head(keys)]>> >>
                          ELSE <<>>) \o ItemsIn(d, Tail(keys))

\* the orders in which iterating d may give its keys: each key once, in an
\* order the interpreter chooses
DictKeys(d) ==
    { ks \in [1..Cardinality(DOMAIN d) -> DOMAIN d] :
          \A i, j \in 1..Cardinality(DOMAIN d) : i # j => ks[i] # ks[j] }

\* d.items(): the lists of pairs it may return
Items(d) == { ItemsIn(d, ks) : ks \in DictKeys(d) }

\* -------------------------------------------------- oauthlib.uri_validate
\* RFC 3986 absolute-URI: scheme ":" hier-part
is_absolute_uri(u) == u.scheme # "" /\ u.hier # ""

\* ------------------------------------------------------- oauthlib.common
RECURSIVE EncodeParams(_)
EncodeParams(params) ==
    IF Len(params) = 0 THEN <<>>
    ELSE << <<Head(params)[1],
              IF Head(params)[1] = "expires_in"
              THEN NatToStr(Head(params)[2]) ELSE Head(params)[2]>> >>
         \o EncodeParams(Tail(params))

\* add_params_to_uri(uri, params, fragment=False): the redirect response; the
\* parameters are appended to the query, or to the fragment when asked. The
\* target is kept as given, an absent one (NoURI) included.
add_params_to_uri(uri, params, fragment) ==
    [kind |-> "redirect",
     uri |-> uri,
     query |-> IF fragment THEN <<>> ELSE EncodeParams(params),
     fragment |-> IF fragment THEN EncodeParams(params) ELSE <<>>]

\* ------------------------------------------------------------------ errors
NoError == [error |-> "", description |-> None, state |-> None]

OAuth2Error(code, description, state) ==
    [error |-> code, description |-> description, state |-> state]

InvalidRequestError(state, description) ==
    OAuth2Error("invalid_request", description, state)
UnauthorizedClientError(state) ==
    OAuth2Error("unauthorized_client", None, state)
UnsupportedResponseTypeError(state) ==
    OAuth2Error("unsupported_response_type", None, state)
InvalidScopeError(state) ==
    OAuth2Error("invalid_scope", None, state)
AccessDeniedError(state) ==
    OAuth2Error("access_denied", None, state)
UnsupportedGrantTypeError ==
    OAuth2Error("unsupported_grant_type", None, None)
InvalidGrantError ==
    OAuth2Error("invalid_grant", None, None)

\* e.twotuples: the redirect form of an error
twotuples(e) ==
    << <<"error", e.error>> >>
    \o (IF Falsy(e.state) THEN <<>> ELSE << <<"state", e.state>> >>)
    \o (IF Falsy(e.description) THEN <<>>
        ELSE << <<"error_description", e.description>> >>)

\* e.json: the body form of an error
error_json(e) ==
    [kind |-> "json",
     body |-> [error |-> e.error]
              @@ (IF Falsy(e.description) THEN EmptyDict
                  ELSE [error_description |-> e.description])
              @@ (IF Falsy(e.state) THEN EmptyDict ELSE [state |-> e.state])]

\* json.dumps(token)
json_dumps(d) == [kind |-> "json", body |-> d]

\* ------------------------------------------------- the collaborator backend
\* The hooks of AuthorizationBase are abstract; the backend below implements
\* them over a registry of four clients:
\*   abc    authorized, default scopes and an absolute default redirect URI
\*   nodef  authorized, no default scopes, no default redirect URI
\*   rel    authorized, its registered default redirect URI is relative
\*   evil   not authorized, with a default redirect URI on record
AuthorizedClients == {"abc", "nodef", "rel"}

AllowedScopes == {"read", "write"}

validate_client(client) == client \in AuthorizedClients

validate_scopes(client, scopes) ==
    \A i \in 1..Len(scopes) : scopes[i] \in AllowedScopes

get_default_scopes(client) ==
    IF client \in {"abc", "rel"} THEN <<"read">> ELSE <<>>

validate_redirect_uri(client, redirect_uri) == redirect_uri = AppCb

get_default_redirect_uri(client) ==
    CASE client = "abc" -> AppCb
      [] client = "rel" -> RelCb
      [] client = "evil" -> EvilCb
      [] OTHER -> NoURI

\* scopes the backend recorded for an authorization code
get_scopes(client, code) ==
    IF client = "abc" THEN <<"read">> ELSE <<"read", "write">>

\* the response types the server instance handles (self.response_type_handlers)
response_type_handlers == {"code", "token"}

\* token_handler: the externally supplied transform of a fresh token
token_handler(kind, token) ==
    IF kind = "sign" THEN token @@ [signature |-> "sig"] ELSE token

\* --------------------------------------------------------------- validator
\* the outcome of validate_request: the error raised (NoError when it
\* returns True), the request as it leaves it, the hooks called, in order
Outcome(e, request, hooks) == [error |-> e, request |-> request, calls |-> hooks]

\* resolve_redirect_uri without the is_absolute_uri test of lines 36-38
resolve_redirect_uri_unchecked(request, hooks) ==
    IF ~FalsyUri(request.redirect_uri)
    THEN IF ~validate_redirect_uri(request.client_id, request.redirect_uri)
         THEN Outcome(AccessDeniedError(request.state), request,
                      Append(hooks, "validate_redirect_uri"))
         ELSE Outcome(NoError, request, Append(hooks, "validate_redirect_uri"))
    ELSE LET r == [request EXCEPT !.redirect_uri =
                                     get_default_redirect_uri(request.client_id)]
             h == Append(hooks, "get_default_redirect_uri")
         IN  IF FalsyUri(r.redirect_uri)
             THEN Outcome(AccessDeniedError(r.state), r, h)
             ELSE Outcome(NoError, r, h)

\* resolve_redirect_uri without the test of lines 44-45 on the default
resolve_redirect_uri_any_default(request, hooks) ==
    IF ~FalsyUri(request.redirect_uri)
    THEN IF ~is_absolute_uri(request.redirect_uri)
         THEN Outcome(InvalidRequestError(request.state,
                         "Non absolute redirect URI. See RFC3986"),
                      request, hooks)
         ELSE IF ~validate_redirect_uri(request.client_id, request.redirect_uri)
         THEN Outcome(AccessDeniedError(request.state), request,
                      Append(hooks, "validate_redirect_uri"))
         ELSE Outcome(NoError, request, Append(hooks, "validate_redirect_uri"))
    ELSE Outcome(NoError,
                 [request EXCEPT !.redirect_uri =
                                     get_default_redirect_uri(request.client_id)],
                 Append(hooks, "get_default_redirect_uri"))

\* lines 35-45: redirect URI resolution
resolve_redirect_uri(request, hooks) ==
    IF ~FalsyUri(request.redirect_uri)
    THEN IF ~is_absolute_uri(request.redirect_uri)
         THEN Outcome(InvalidRequestError(request.state,
                         "Non absolute redirect URI. See RFC3986"),
                      request, hooks)
         ELSE IF ~validate_redirect_uri(request.client_id, request.redirect_uri)
         THEN Outcome(AccessDeniedError(request.state), request,
                      Append(hooks, "validate_redirect_uri"))
         ELSE Outcome(NoError, request, Append(hooks, "validate_redirect_uri"))
    ELSE LET r == [request EXCEPT !.redirect_uri =
                                     get_default_redirect_uri(request.client_id)]
             h == Append(hooks, "get_default_redirect_uri")
         IN  IF FalsyUri(r.redirect_uri)
             THEN Outcome(AccessDeniedError(r.state), r, h)
             ELSE Outcome(NoError, r, h)

\* lines 29-33: scope resolution, then the redirect URI
resolve_scopes(request, hooks) ==
    IF Len(request.scopes) > 0
    THEN IF ~validate_scopes(request.client_id, request.scopes)
         THEN Outcome(InvalidScopeError(request.state), request,
                      Append(hooks, "validate_scopes"))
         ELSE resolve_redirect_uri(request, Append(hooks, "validate_scopes"))
    ELSE resolve_redirect_uri(
             [request EXCEPT !.scopes = get_default_scopes(request.client_id)],
             Append(hooks, "get_default_scopes"))

\* validate_request with the tests of lines 23 and 26 exchanged
validate_request_type_first(request) ==
    IF Falsy(request.client_id)
    THEN Outcome(InvalidRequestError(request.state,
                     "Missing client_id parameter."), request, <<>>)
    ELSE IF Falsy(request.response_type)
    THEN Outcome(InvalidRequestError(request.state,
                     "Missing response_type parameter."), request, <<>>)
    ELSE IF request.response_type \notin response_type_handlers
    THEN Outcome(UnsupportedResponseTypeError(request.state), request, <<>>)
    ELSE IF ~validate_client(request.client_id)
    THEN Outcome(UnauthorizedClientError(request.state), request,
                 <<"validate_client">>)
    ELSE resolve_scopes(request, <<"validate_client">>)

\* validate_request with the client looked up before the tests of lines 15-21
validate_request_client_first(request) ==
    IF ~validate_client(request.client_id)
    THEN Outcome(UnauthorizedClientError(request.state), request,
                 <<"validate_client">>)
    ELSE IF Falsy(request.client_id)
    THEN Outcome(InvalidRequestError(request.state,
                     "Missing client_id parameter."), request,
                 <<"validate_client">>)
    ELSE IF Falsy(request.response_type)
    THEN Outcome(InvalidRequestError(request.state,
                     "Missing response_type parameter."), request,
                 <<"validate_client">>)
    ELSE IF request.response_type \notin response_type_handlers
    THEN Outcome(UnsupportedResponseTypeError(request.state), request,
                 <<"validate_client">>)
    ELSE resolve_scopes(request, <<"validate_client">>)

\* AuthorizationBase.validate_request
validate_request(request) ==
    IF Falsy(request.client_id)
    THEN Outcome(InvalidRequestError(request.state,
                     "Missing client_id parameter."), request, <<>>)
    ELSE IF Falsy(request.response_type)
    THEN Outcome(InvalidRequestError(request.state,
                     "Missing response_type parameter."), request, <<>>)
    ELSE IF ~validate_client(request.client_id)
    THEN Outcome(UnauthorizedClientError(request.state), request,
                 <<"validate_client">>)
    ELSE IF request.response_type \notin response_type_handlers
    THEN Outcome(UnsupportedResponseTypeError(request.state), request,
                 <<"validate_client">>)
    ELSE resolve_scopes(request, <<"validate_client">>)

\* AuthorizationCodeGrant.expires_in / ImplicitGrant.expires_in
expires_in == 3600

\* AuthorizationCodeGrant.create_token, reading self.scopes; n tokens have
\* been generated so far
code_create_token(scopes, n) ==
    [access_token |-> generate_token(n + 1),
     refresh_token |-> generate_token(n + 2),
     expires_in |-> expires_in,
     scope |-> Join(scopes)]

\* create_authorization_grant without lines 89-90: the state is left out
create_authorization_grant_no_state(request, n) ==
    [code |-> generate_token(n + 1)]

\* AuthorizationCodeGrant.create_authorization_grant
create_authorization_grant(request, n) ==
    [code |-> generate_token(n + 1)]
    @@ (IF Falsy(request.state) THEN EmptyDict ELSE [state |-> request.state])

\* ImplicitGrant.create_token taking the scope from the client's defaults
\* instead of the request's resolved scopes
implicit_create_token_default_scope(request, n) ==
    [access_token |-> generate_token(n + 1),
     expires_in |-> expires_in,
     scope |-> Join(get_default_scopes(request.client_id)),
     state |-> request.state]

\* ImplicitGrant.create_token
implicit_create_token(request, n) ==
    [access_token |-> generate_token(n + 1),
     expires_in |-> expires_in,
     scope |-> Join(request.scopes),
     state |-> request.state]

\* AuthorizationCodeGrant.validate_code of the backend: a code is accepted
\* while it is in the backend's registry of outstanding codes
validate_code(live, client, code) == code \in live

\* validate_token_request with the tests of lines 150 and 153 exchanged
validate_token_request_code_first(request, live) ==
    IF request.grant_type # "authorization_code"
    THEN Outcome(UnsupportedGrantTypeError, request, <<>>)
    ELSE IF Falsy(request.code)
    THEN Outcome(InvalidRequestError(None, "Missing code parameter."),
                 request, <<>>)
    ELSE IF ~validate_code(live, request.client, request.code)
    THEN Outcome(InvalidGrantError, request, <<"validate_code">>)
    ELSE IF ~validate_client(request.client)
    THEN Outcome(UnauthorizedClientError(None), request,
                 <<"validate_code", "validate_client">>)
    ELSE Outcome(NoError, request, <<"validate_code", "validate_client">>)

\* AuthorizationCodeGrant.validate_token_request, against the backend's
\* registry of outstanding codes
validate_token_request(request, live) ==
    IF request.grant_type # "authorization_code"
    THEN Outcome(UnsupportedGrantTypeError, request, <<>>)
    ELSE IF Falsy(request.code)
    THEN Outcome(InvalidRequestError(None, "Missing code parameter."),
                 request, <<>>)
    ELSE IF ~validate_client(request.client)
    THEN Outcome(UnauthorizedClientError(None), request, <<"validate_client">>)
    ELSE IF ~validate_code(live, request.client, request.code)
    THEN Outcome(InvalidGrantError, request,
                 <<"validate_client", "validate_code">>)
    ELSE Outcome(NoError, request, <<"validate_client", "validate_code">>)

\* ------------------------------------------------------------------- state
Procs == {1, 2}

VARIABLES
    pc,              \* pc[p]: the statement request handler p executes next
    entry,           \* entry[p]: the entry point handler p is running
    received,        \* received[p]: the request as it arrived
    request,         \* request[p]: the request object, as mutated so far
    handler,         \* handler[p]: the token_handler passed to the entry point
    error,           \* error[p]: the OAuth2Error raised by the validator
    calls,           \* calls[p]: the hooks called for this request, in order
    saved,           \* saved[p]: the arguments of the save hook calls
    response,        \* response[p]: the value the entry point returned
    created,         \* history: the grant or token created for p's request
    prior,           \* history: redeemed[code] when p's request arrived
    code_grant,      \* attributes of the AuthorizationCodeGrant object
    implicit_grant,  \* attributes of the ImplicitGrant object
    generated,       \* number of strings generate_token() has returned
    code_store,      \* backend: outstanding and consumed authorization codes
    redeemed         \* history: token responses returned per presented code

vars == <<pc, entry, received, request, handler, error, calls, saved,
          response, created, prior, code_grant, implicit_grant, generated,
          code_store, redeemed>>

locals == <<entry, received, request, handler, error, calls, saved, response,
            prior>>

\* an attribute that has not been assigned yet
Unset == [unset |-> TRUE]

NoParams == [code |-> None, redirect_uri |-> NoURI]

NoRequest ==
    [client_id |-> None, response_type |-> None, redirect_uri |-> NoURI,
     scopes |-> <<>>, state |-> None, grant_type |-> None, code |-> None,
     client |-> None, params |-> NoParams]

NoResponse == [kind |-> "none"]

\* create_token draws two strings, so the last one drawn is at most this
LastToken == (IF MaxTokens > MaxConcTokens THEN MaxTokens ELSE MaxConcTokens) + 1

AllCodes == {None, "forged"} \cup {generate_token(i) : i \in 1..LastToken}

\* ------------------------------------------------------------------ inputs
ClientIds == {None, "abc", "nodef", "rel", "evil"}
Uris == {NoURI, AppCb, OtherCb, RelCb}
ScopeLists == {<<>>, <<"read", "write">>, <<"admin">>}
States == {None, "xyz"}
Handlers == {"identity", "sign"}

\* requests to an authorization endpoint
AuthorizationRequests(types) ==
    {[NoRequest EXCEPT !.client_id = c, !.response_type = t,
                       !.redirect_uri = u, !.scopes = s, !.state = st,
                       !.client = c] :
        c \in ClientIds, t \in types, u \in Uris, s \in ScopeLists,
        st \in States}

\* codes a client can present: none, one it made up, or one that was issued
PresentableCodes(store) == {None, "forged"} \cup store.live \cup store.used

\* requests to the token endpoint: code and redirect_uri travel in params
TokenRequests(store) ==
    {[NoRequest EXCEPT !.client_id = c, !.response_type = t, !.state = st,
                       !.grant_type = "authorization_code", !.client = c,
                       !.params = [code |-> k, redirect_uri |-> u]] :
        c \in {None, "abc", "nodef", "evil"}, t \in {None, "code"},
        st \in States, k \in PresentableCodes(store), u \in {NoURI, AppCb, RelCb}}

\* requests handed to validate_token_request
TokenValidationRequests(store) ==
    {[NoRequest EXCEPT !.grant_type = g, !.code = k, !.client = c] :
        g \in {None, "authorization_code", "password"},
        k \in PresentableCodes(store), c \in {"abc", "evil"}}

Init ==
    /\ pc = [p \in Procs |-> "idle"]
    /\ entry = [p \in Procs |-> "none"]
    /\ received = [p \in Procs |-> NoRequest]
    /\ request = [p \in Procs |-> NoRequest]
    /\ handler = [p \in Procs |-> "identity"]
    /\ error = [p \in Procs |-> NoError]
    /\ calls = [p \in Procs |-> <<>>]
    /\ saved = [p \in Procs |-> <<>>]
    /\ response = [p \in Procs |-> NoResponse]
    /\ created = [p \in Procs |-> Unset]
    /\ prior = [p \in Procs |-> 0]
    /\ code_grant = [scopes |-> Unset, token |-> Unset, grant |-> Unset]
    /\ implicit_grant = [token |-> Unset]
    /\ generated = 0
    /\ code_store = [live |-> {}, used |-> {}]
    /\ redeemed = [k \in AllCodes |-> 0]

\* handler p takes a request: the per-request bookkeeping of an entry point
Accept(p, name, req, h) ==
    /\ pc[p] = "idle"
    /\ entry' = [entry EXCEPT ![p] = name]
    /\ received' = [received EXCEPT ![p] = req]
    /\ handler' = [handler EXCEPT ![p] = h]
    /\ saved' = [saved EXCEPT ![p] = <<>>]
    /\ created' = [created EXCEPT ![p] = Unset]
    /\ prior' = [prior EXCEPT ![p] =
                    IF name = "token" THEN redeemed[req.params.code] ELSE 0]

\* car_validate sending an error to the client's default redirect URI
car_validate_to_default(p, req) ==
    LET v == validate_request(req) IN
    /\ Accept(p, "code_authorization", req, "identity")
    /\ request' = [request EXCEPT ![p] = v.request]
    /\ error' = [error EXCEPT ![p] = v.error]
    /\ calls' = [calls EXCEPT ![p] = v.calls]
    /\ IF v.error # NoError
       THEN /\ response' = [response EXCEPT ![p] =
                   add_params_to_uri(get_default_redirect_uri(req.client_id),
                                     twotuples(v.error), FALSE)]
            /\ pc' = [pc EXCEPT ![p] = "done"]
       ELSE /\ response' = [response EXCEPT ![p] = NoResponse]
            /\ pc' = [pc EXCEPT ![p] = "car_grant"]
    /\ UNCHANGED <<code_grant, implicit_grant, generated, code_store, redeemed>>

\* ------------------------- AuthorizationCodeGrant.create_authorization_response
\* lines 106-110: validate; an OAuth2Error is returned as a redirect
car_validate(p, req) ==
    LET v == validate_request(req) IN
    /\ Accept(p, "code_authorization", req, "identity")
    /\ request' = [request EXCEPT ![p] = v.request]
    /\ error' = [error EXCEPT ![p] = v.error]
    /\ calls' = [calls EXCEPT ![p] = v.calls]
    /\ IF v.error # NoError
       THEN /\ response' = [response EXCEPT ![p] =
                   add_params_to_uri(v.request.redirect_uri,
                                     twotuples(v.error), FALSE)]
            /\ pc' = [pc EXCEPT ![p] = "done"]
       ELSE /\ response' = [response EXCEPT ![p] = NoResponse]
            /\ pc' = [pc EXCEPT ![p] = "car_grant"]
    /\ UNCHANGED <<code_grant, implicit_grant, generated, code_store, redeemed>>

\* line 112: self.grant = self.create_authorization_grant(request)
car_create_grant(p) ==
    /\ pc[p] = "car_grant"
    /\ code_grant' = [code_grant EXCEPT
                         !.grant = create_authorization_grant(request[p], generated)]
    /\ generated' = generated + 1
    /\ created' = [created EXCEPT ![p] =
                      create_authorization_grant(request[p], generated)]
    /\ pc' = [pc EXCEPT ![p] = "car_save"]
    /\ UNCHANGED <<locals, implicit_grant, code_store, redeemed>>

\* lines 113-114: self.save_authorization_grant(client_id, self.grant, state)
car_save(p) ==
    /\ pc[p] = "car_save"
    /\ saved' = [saved EXCEPT ![p] = Append(@,
                     [client_id |-> request[p].client_id,
                      artifact |-> code_grant.grant,
                      state |-> request[p].state])]
    /\ calls' = [calls EXCEPT ![p] = Append(@, "save_authorization_grant")]
    /\ code_store' = [code_store EXCEPT !.live = @ \cup {code_grant.grant.code}]
    /\ pc' = [pc EXCEPT ![p] = "car_return"]
    /\ UNCHANGED <<entry, received, request, handler, error, response,
                   created, prior, code_grant, implicit_grant, generated, redeemed>>

\* car_return answering with a grant made anew (lines 79-84 and 86-91 are two
\* constructors of the same grant) instead of the saved self.grant
car_return_new_grant(p) ==
    /\ pc[p] = "car_return"
    /\ \E items \in Items(create_authorization_grant(request[p], generated)) :
           response' = [response EXCEPT ![p] =
               add_params_to_uri(request[p].redirect_uri, items, FALSE)]
    /\ pc' = [pc EXCEPT ![p] = "done"]
    /\ UNCHANGED <<entry, received, request, handler, error, calls, saved,
                   created, prior, code_grant, implicit_grant, generated,
                   code_store, redeemed>>

\* line 115: return add_params_to_uri(request.redirect_uri, self.grant.items())
car_return(p) ==
    /\ pc[p] = "car_return"
    /\ \E items \in Items(code_grant.grant) :
           response' = [response EXCEPT ![p] =
               add_params_to_uri(request[p].redirect_uri, items, FALSE)]
    /\ pc' = [pc EXCEPT ![p] = "done"]
    /\ UNCHANGED <<entry, received, request, handler, error, calls, saved,
                   created, prior, code_grant, implicit_grant, generated, code_store, redeemed>>

\* ctr_validate without lines 126-127: code and redirect_uri are not copied
\* from params before the request is validated
ctr_validate_no_copy(p, req, h) ==
    LET v == validate_request(req) IN
    /\ Accept(p, "token", req, h)
    /\ request' = [request EXCEPT ![p] = v.request]
    /\ error' = [error EXCEPT ![p] = v.error]
    /\ calls' = [calls EXCEPT ![p] = v.calls]
    /\ IF v.error # NoError
       THEN /\ response' = [response EXCEPT ![p] = error_json(v.error)]
            /\ pc' = [pc EXCEPT ![p] = "done"]
       ELSE /\ response' = [response EXCEPT ![p] = NoResponse]
            /\ pc' = [pc EXCEPT ![p] = "ctr_scopes"]
    /\ UNCHANGED <<code_grant, implicit_grant, generated, code_store, redeemed>>

\* ------------------------------- AuthorizationCodeGrant.create_token_response
\* lines 126-133: copy code and redirect_uri from params, validate; an
\* OAuth2Error is returned in body form
ctr_validate(p, req, h) ==
    LET r == [req EXCEPT !.code = req.params.code,
                         !.redirect_uri = req.params.redirect_uri]
        v == validate_request(r)
    IN
    /\ Accept(p, "token", req, h)
    /\ request' = [request EXCEPT ![p] = v.request]
    /\ error' = [error EXCEPT ![p] = v.error]
    /\ calls' = [calls EXCEPT ![p] = v.calls]
    /\ IF v.error # NoError
       THEN /\ response' = [response EXCEPT ![p] = error_json(v.error)]
            /\ pc' = [pc EXCEPT ![p] = "done"]
       ELSE /\ response' = [response EXCEPT ![p] = NoResponse]
            /\ pc' = [pc EXCEPT ![p] = "ctr_scopes"]
    /\ UNCHANGED <<code_grant, implicit_grant, generated, code_store, redeemed>>

\* line 135: self.scopes = self.get_scopes(request.client, request.code)
ctr_get_scopes(p) ==
    /\ pc[p] = "ctr_scopes"
    /\ code_grant' = [code_grant EXCEPT
                         !.scopes = get_scopes(request[p].client, request[p].code)]
    /\ calls' = [calls EXCEPT ![p] = Append(@, "get_scopes")]
    /\ pc' = [pc EXCEPT ![p] = "ctr_token"]
    /\ UNCHANGED <<entry, received, request, handler, error, saved, response,
                   created, prior, implicit_grant, generated, code_store, redeemed>>

\* line 136: self.token = self.create_token()
ctr_create_token(p) ==
    /\ pc[p] = "ctr_token"
    /\ code_grant' = [code_grant EXCEPT
                         !.token = code_create_token(code_grant.scopes, generated)]
    /\ generated' = generated + 2
    /\ created' = [created EXCEPT ![p] =
                      code_create_token(code_grant.scopes, generated)]
    /\ pc' = [pc EXCEPT ![p] = "ctr_handler"]
    /\ UNCHANGED <<locals, implicit_grant, code_store, redeemed>>

\* line 137: self.token = token_handler(self.token)
ctr_token_handler(p) ==
    /\ pc[p] = "ctr_handler"
    /\ code_grant' = [code_grant EXCEPT
                         !.token = token_handler(handler[p], code_grant.token)]
    /\ calls' = [calls EXCEPT ![p] = Append(@, "token_handler")]
    /\ pc' = [pc EXCEPT ![p] = "ctr_return"]
    /\ UNCHANGED <<entry, received, request, handler, error, saved, response,
                   created, prior, implicit_grant, generated, code_store, redeemed>>

\* line 139: return json.dumps(self.token)
ctr_return(p) ==
    /\ pc[p] = "ctr_return"
    /\ response' = [response EXCEPT ![p] = json_dumps(code_grant.token)]
    /\ redeemed' = [redeemed EXCEPT ![request[p].code] = @ + 1]
    /\ pc' = [pc EXCEPT ![p] = "done"]
    /\ UNCHANGED <<entry, received, request, handler, error, calls, saved,
                   created, prior, code_grant, implicit_grant, generated, code_store>>

\* iar_validate without fragment=True on the error redirect
iar_validate_query(p, req, h) ==
    LET v == validate_request(req) IN
    /\ Accept(p, "implicit_authorization", req, h)
    /\ request' = [request EXCEPT ![p] = v.request]
    /\ error' = [error EXCEPT ![p] = v.error]
    /\ calls' = [calls EXCEPT ![p] = v.calls]
    /\ IF v.error # NoError
       THEN /\ response' = [response EXCEPT ![p] =
                   add_params_to_uri(v.request.redirect_uri,
                                     twotuples(v.error), FALSE)]
            /\ pc' = [pc EXCEPT ![p] = "done"]
       ELSE /\ response' = [response EXCEPT ![p] = NoResponse]
            /\ pc' = [pc EXCEPT ![p] = "iar_token"]
    /\ UNCHANGED <<code_grant, implicit_grant, generated, code_store, redeemed>>

\* --------------------------------- ImplicitGrant.create_authorization_response
\* lines 178-183: validate; an OAuth2Error is returned in the fragment
iar_validate(p, req, h) ==
    LET v == validate_request(req) IN
    /\ Accept(p, "implicit_authorization", req, h)
    /\ request' = [request EXCEPT ![p] = v.request]
    /\ error' = [error EXCEPT ![p] = v.error]
    /\ calls' = [calls EXCEPT ![p] = v.calls]
    /\ IF v.error # NoError
       THEN /\ response' = [response EXCEPT ![p] =
                   add_params_to_uri(v.request.redirect_uri,
                                     twotuples(v.error), TRUE)]
            /\ pc' = [pc EXCEPT ![p] = "done"]
       ELSE /\ response' = [response EXCEPT ![p] = NoResponse]
            /\ pc' = [pc EXCEPT ![p] = "iar_token"]
    /\ UNCHANGED <<code_grant, implicit_grant, generated, code_store, redeemed>>

\* line 185: self.token = self.create_token(request)
iar_create_token(p) ==
    /\ pc[p] = "iar_token"
    /\ implicit_grant' = [implicit_grant EXCEPT
                             !.token = implicit_create_token(request[p], generated)]
    /\ generated' = generated + 1
    /\ created' = [created EXCEPT ![p] =
                      implicit_create_token(request[p], generated)]
    /\ pc' = [pc EXCEPT ![p] = "iar_handler"]
    /\ UNCHANGED <<locals, code_grant, code_store, redeemed>>

\* line 186: self.token = token_handler(self, self.token)
iar_token_handler(p) ==
    /\ pc[p] = "iar_handler"
    /\ implicit_grant' = [implicit_grant EXCEPT
                             !.token = token_handler(handler[p], implicit_grant.token)]
    /\ calls' = [calls EXCEPT ![p] = Append(@, "token_handler")]
    /\ pc' = [pc EXCEPT ![p] = "iar_save"]
    /\ UNCHANGED <<entry, received, request, handler, error, saved, response,
                   created, prior, code_grant, generated, code_store, redeemed>>

\* iar_save saving the token as created, before token_handler transformed it
iar_save_untransformed(p) ==
    /\ pc[p] = "iar_save"
    /\ saved' = [saved EXCEPT ![p] = Append(@,
                     [client_id |-> request[p].client_id,
                      artifact |-> created[p],
                      state |-> request[p].state])]
    /\ calls' = [calls EXCEPT ![p] = Append(@, "save_grant")]
    /\ pc' = [pc EXCEPT ![p] = "iar_return"]
    /\ UNCHANGED <<entry, received, request, handler, error, response,
                   created, prior, code_grant, implicit_grant, generated,
                   code_store, redeemed>>

\* line 187: self.save_grant(request.client_id, self.token, state=request.state)
iar_save(p) ==
    /\ pc[p] = "iar_save"
    /\ saved' = [saved EXCEPT ![p] = Append(@,
                     [client_id |-> request[p].client_id,
                      artifact |-> implicit_grant.token,
                      state |-> request[p].state])]
    /\ calls' = [calls EXCEPT ![p] = Append(@, "save_grant")]
    /\ pc' = [pc EXCEPT ![p] = "iar_return"]
    /\ UNCHANGED <<entry, received, request, handler, error, response,
                   created, prior, code_grant, implicit_grant, generated, code_store, redeemed>>

\* lines 188-189: return add_params_to_uri(redirect_uri, items, fragment=True)
iar_return(p) ==
    /\ pc[p] = "iar_return"
    /\ \E items \in Items(implicit_grant.token) :
           response' = [response EXCEPT ![p] =
               add_params_to_uri(request[p].redirect_uri, items, TRUE)]
    /\ pc' = [pc EXCEPT ![p] = "done"]
    /\ UNCHANGED <<entry, received, request, handler, error, calls, saved,
                   created, prior, code_grant, implicit_grant, generated, code_store, redeemed>>

\* ------------------------------ AuthorizationCodeGrant.validate_token_request
\* lines 141-154, with the backend consuming a code its validate_code accepts
vtr_validate(p, req) ==
    LET v == validate_token_request(req, code_store.live) IN
    /\ Accept(p, "validate_token", req, "identity")
    /\ request' = [request EXCEPT ![p] = v.request]
    /\ error' = [error EXCEPT ![p] = v.error]
    /\ calls' = [calls EXCEPT ![p] = v.calls]
    /\ response' = [response EXCEPT ![p] = NoResponse]
    /\ code_store' = IF v.error = NoError
                     THEN [live |-> code_store.live \ {req.code},
                           used |-> code_store.used \cup {req.code}]
                     ELSE code_store
    /\ pc' = [pc EXCEPT ![p] = "done"]
    /\ UNCHANGED <<code_grant, implicit_grant, generated, redeemed>>

\* the entry point has returned; the handler is ready for the next request
finish(p) ==
    /\ pc[p] = "done"
    /\ pc' = [pc EXCEPT ![p] = "idle"]
    /\ entry' = [entry EXCEPT ![p] = "none"]
    /\ received' = [received EXCEPT ![p] = NoRequest]
    /\ request' = [request EXCEPT ![p] = NoRequest]
    /\ handler' = [handler EXCEPT ![p] = "identity"]
    /\ error' = [error EXCEPT ![p] = NoError]
    /\ calls' = [calls EXCEPT ![p] = <<>>]
    /\ saved' = [saved EXCEPT ![p] = <<>>]
    /\ response' = [response EXCEPT ![p] = NoResponse]
    /\ created' = [created EXCEPT ![p] = Unset]
    /\ prior' = [prior EXCEPT ![p] = 0]
    /\ UNCHANGED <<code_grant, implicit_grant, generated, code_store, redeemed>>

\* the statements of the three flows that follow a successful validation
Continue(p, bound) ==
    \/ generated < bound /\ car_create_grant(p)
    \/ car_save(p)
    \/ car_return(p)
    \/ ctr_get_scopes(p)
    \/ generated < bound /\ ctr_create_token(p)
    \/ ctr_token_handler(p)
    \/ ctr_return(p)
    \/ generated < bound /\ iar_create_token(p)
    \/ iar_token_handler(p)
    \/ iar_save(p)
    \/ iar_return(p)
    \/ finish(p)

\* requests of every shape, handled one at a time by handler 1
Next ==
    \/ \E req \in AuthorizationRequests({None, "code", "bogus"}) :
           car_validate(1, req)
    \/ \E req \in TokenRequests(code_store), h \in Handlers :
           ctr_validate(1, req, h)
    \/ \E req \in AuthorizationRequests({None, "token", "bogus"}), h \in Handlers :
           iar_validate(1, req, h)
    \/ \E req \in TokenValidationRequests(code_store) : vtr_validate(1, req)
    \/ Continue(1, MaxTokens)

Spec == Init /\ [][Next]_vars

\* well-formed requests of authorized clients, for the concurrent behaviours
ConcAuthorizationRequests(type) ==
    {[NoRequest EXCEPT !.client_id = "abc", !.response_type = type,
                       !.redirect_uri = AppCb, !.scopes = sc[1], !.state = sc[2],
                       !.client = "abc"] :
        sc \in {<< <<>>, "xyz" >>, << <<"read", "write">>, None >>}}

\* one implicit request, whose token has the fewest keys (no state)
ConcImplicitRequests ==
    {[NoRequest EXCEPT !.client_id = "abc", !.response_type = "token",
                       !.redirect_uri = AppCb, !.scopes = <<"read", "write">>,
                       !.client = "abc"]}

ConcTokenRequests(store) ==
    {[NoRequest EXCEPT !.client_id = c, !.response_type = "code",
                       !.grant_type = "authorization_code", !.client = c,
                       !.params = [code |-> k, redirect_uri |-> AppCb]] :
        c \in {"abc", "nodef"}, k \in store.live \cup store.used}

ConcTokenValidationRequests(store) ==
    {[NoRequest EXCEPT !.grant_type = "authorization_code", !.code = k,
                       !.client = "abc"] : k \in store.live \cup store.used}

\* both handlers serve requests on the same two grant objects; a handler can
\* be preempted between any two statements of an entry point
NextConc ==
    \E p \in Procs :
        \/ \E req \in ConcAuthorizationRequests("code") : car_validate(p, req)
        \/ \E req \in ConcTokenRequests(code_store) :
               ctr_validate(p, req, "identity")
        \/ \E req \in ConcImplicitRequests : iar_validate(p, req, "identity")
        \/ \E req \in ConcTokenValidationRequests(code_store) :
               vtr_validate(p, req)
        \/ Continue(p, MaxConcTokens)

SpecConc == Init /\ [][NextConc]_vars

\* ----------------------------------------------- vocabulary of the claims
\* handler p is running an entry point that starts with validate_request
Validated(p) ==
    entry[p] \in {"code_authorization", "implicit_authorization", "token"}

\* the request as the entry point hands it to validate_request
Presented(p) ==
    IF entry[p] = "token"
    THEN [received[p] EXCEPT !.code = received[p].params.code,
                             !.redirect_uri = received[p].params.redirect_uri]
    ELSE received[p]

\* the number (1-6) of the first check of the validator's list that request r
\* fails against the backend, 0 when it passes them all
FirstFailingCheck(r) ==
    CASE Falsy(r.client_id) -> 1
      [] ~Falsy(r.client_id) /\ Falsy(r.response_type) -> 2
      [] OTHER ->
          IF r.client_id \notin AuthorizedClients THEN 3
          ELSE IF r.response_type \notin response_type_handlers THEN 4
          ELSE IF r.scopes # <<>> /\ ~validate_scopes(r.client_id, r.scopes) THEN 5
          ELSE IF r.redirect_uri # NoURI
                  /\ (~is_absolute_uri(r.redirect_uri)
                      \/ ~validate_redirect_uri(r.client_id, r.redirect_uri)) THEN 6
          ELSE IF r.redirect_uri = NoURI
                  /\ get_default_redirect_uri(r.client_id) = NoURI THEN 6
          ELSE 0

\* the error kind that belongs to failing check k on request r
ErrorOfCheck(k, r) ==
    CASE k \in {1, 2} -> "invalid_request"
      [] k = 3 -> "unauthorized_client"
      [] k = 4 -> "unsupported_response_type"
      [] k = 5 -> "invalid_scope"
      [] k = 6 -> IF r.redirect_uri # NoURI /\ ~is_absolute_uri(r.redirect_uri)
                  THEN "invalid_request" ELSE "access_denied"
      [] OTHER -> ""

\* the check a collaborator hook belongs to (7: not a hook of the validator)
CheckOfHook(h) ==
    CASE h = "validate_client" -> 3
      [] h \in {"validate_scopes", "get_default_scopes"} -> 5
      [] h \in {"validate_redirect_uri", "get_default_redirect_uri"} -> 6
      [] OTHER -> 7

Called(p, h) == \E i \in 1..Len(calls[p]) : calls[p][i] = h

HasParam(params, key, value) ==
    \E i \in 1..Len(params) : params[i] = <<key, value>>

HasKey(params, key) == \E i \in 1..Len(params) : params[i][1] = key

\* ------------------------------------------------------------------ claims
\* C2 (as claimed): every execution of create_token_response calls the
\* validate_code hook for the presented code, and returns a token only if
\* that call was made and accepted the code.
C2_RedemptionCallsValidateCode ==
    \A p \in Procs :
        (entry[p] = "token" /\ pc[p] = "done") => Called(p, "validate_code")

\* C4: validate_request reports the error of the first failing check, in the
\* order client_id, response_type, client authority, supported response_type,
\* scopes, redirect URI; it calls no hook of a later check, and calls the
\* hooks in the order of their checks.
C4_OrderedShortCircuit ==
    \A p \in Procs :
        Validated(p) =>
            LET r == Presented(p)
                k == FirstFailingCheck(r)
            IN  /\ (k = 0) <=> (error[p] = NoError)
                /\ k > 0 => /\ error[p].error = ErrorOfCheck(k, r)
                            /\ error[p].state = r.state
                            /\ \A i \in 1..Len(calls[p]) :
                                   CheckOfHook(calls[p][i]) <= k
                /\ \A i, j \in 1..Len(calls[p]) :
                       i < j => CheckOfHook(calls[p][i]) <= CheckOfHook(calls[p][j])

\* C4 witness: a request rejected for its scopes whose redirect URI would
\* have failed the next check too; only the hooks of checks 3 and 5 ran
C4_Witness ==
    \E p \in Procs :
        /\ Validated(p) /\ pc[p] = "done"
        /\ error[p].error = "invalid_scope"
        /\ calls[p] = <<"validate_client", "validate_scopes">>
        /\ Presented(p).redirect_uri = RelCb

\* C5: a request without client_id or without response_type fails with
\* InvalidRequest and no collaborator hook has been called.
C5_MissingParameterBeforeHooks ==
    \A p \in Procs :
        (Validated(p)
         /\ (Falsy(Presented(p).client_id) \/ Falsy(Presented(p).response_type)))
        => /\ error[p].error = "invalid_request"
           /\ calls[p] = <<>>

\* C5 witness: an unauthorized client's request without response_type
C5_Witness ==
    \E p \in Procs :
        /\ Validated(p) /\ pc[p] = "done"
        /\ Presented(p).client_id = "evil"
        /\ Falsy(Presented(p).response_type)
        /\ error[p].description = "Missing response_type parameter."

\* the case of C6: a code-grant authorization request with client_id,
\* response_type "code", a redirect_uri and a state, from a client the
\* backend does not authorize, has been answered
C6_Case(p) ==
    /\ entry[p] = "code_authorization" /\ pc[p] = "done"
    /\ ~Falsy(received[p].client_id)
    /\ received[p].response_type = "code"
    /\ received[p].redirect_uri # NoURI
    /\ ~Falsy(received[p].state)
    /\ ~validate_client(received[p].client_id)

\* C6 (as claimed): the answer is a redirect to the backend's default
\* redirect URI for the client, with error=unauthorized_client and the state.
C6_RedirectsToDefaultUri ==
    \A p \in Procs :
        C6_Case(p) =>
            /\ response[p].kind = "redirect"
            /\ response[p].uri = get_default_redirect_uri(received[p].client_id)
            /\ HasParam(response[p].query, "error", "unauthorized_client")
            /\ HasParam(response[p].query, "state", received[p].state)

\* C6 (amended): the answer is a redirect to the redirect_uri the request
\* itself supplied, with error=unauthorized_client and the request's state
\* in the query; the default redirect URI is not looked up.
C6_RedirectsToSuppliedUri ==
    \A p \in Procs :
        C6_Case(p) =>
            /\ response[p].kind = "redirect"
            /\ response[p].uri = received[p].redirect_uri
            /\ HasParam(response[p].query, "error", "unauthorized_client")
            /\ HasParam(response[p].query, "state", received[p].state)
            /\ response[p].fragment = <<>>
            /\ ~Called(p, "get_default_redirect_uri")

\* C6 witness: the supplied redirect URI differs from the client's default
C6_Witness ==
    \E p \in Procs :
        /\ C6_Case(p)
        /\ received[p].redirect_uri = AppCb
        /\ get_default_redirect_uri(received[p].client_id) = EvilCb

\* C7 (as claimed): whenever create_authorization_response of either grant
\* has built a redirect, its target is an absolute URI.
C7_RedirectTargetAbsolute ==
    \A p \in Procs :
        response[p].kind = "redirect" => is_absolute_uri(response[p].uri)

\* C8 (as claimed): whenever a code has been saved by the code grant or a
\* token created by the implicit grant, the request's scopes are non-empty.
C8_ScopesNonEmptyAtIssue ==
    \A p \in Procs :
        (\/ entry[p] = "code_authorization" /\ Len(saved[p]) > 0
         \/ entry[p] = "implicit_authorization" /\ created[p] # Unset)
        => Len(request[p].scopes) > 0

\* the case of C9: the request handed to validate_request carries a
\* redirect_uri that is not absolute
C9_Case(p) ==
    /\ Validated(p)
    /\ Presented(p).redirect_uri # NoURI
    /\ ~is_absolute_uri(Presented(p).redirect_uri)

\* C9 (as claimed): such a request fails with InvalidRequest.
C9_NonAbsoluteIsInvalidRequest ==
    \A p \in Procs : C9_Case(p) => error[p].error = "invalid_request"

\* C9 (amended): such a request fails; it fails with InvalidRequest ("Non
\* absolute redirect URI") unless one of the earlier checks fails first, and
\* then with that check's error.
C9_NonAbsoluteFails ==
    \A p \in Procs :
        C9_Case(p) =>
            LET r == Presented(p)
                k == FirstFailingCheck(r)
            IN  /\ error[p] # NoError
                /\ k \in 1..5 => error[p].error = ErrorOfCheck(k, r)
                /\ k \notin 1..5 =>
                       error[p] = InvalidRequestError(r.state,
                                      "Non absolute redirect URI. See RFC3986")

\* C9 witness: the non-absolute URI is what the request was rejected for
C9_Witness ==
    \E p \in Procs :
        /\ C9_Case(p) /\ pc[p] = "done"
        /\ error[p].description = "Non absolute redirect URI. See RFC3986"

\* the case of C10: the request handed to validate_request carries no
\* redirect_uri and the backend has no default redirect URI for its client
C10_Case(p) ==
    /\ Validated(p)
    /\ Presented(p).redirect_uri = NoURI
    /\ get_default_redirect_uri(Presented(p).client_id) = NoURI

\* C10 (as claimed): such a request fails with AccessDenied.
C10_NoRedirectIsAccessDenied ==
    \A p \in Procs : C10_Case(p) => error[p].error = "access_denied"

\* C10 (amended): such a request fails; it fails with AccessDenied unless one
\* of the earlier checks fails first, and then with that check's error.
C10_NoRedirectFails ==
    \A p \in Procs :
        C10_Case(p) =>
            LET r == Presented(p)
                k == FirstFailingCheck(r)
            IN  /\ error[p] # NoError
                /\ k \in 1..5 => error[p].error = ErrorOfCheck(k, r)
                /\ k \notin 1..5 => error[p] = AccessDeniedError(r.state)

\* C10 witness: the missing default is what the request was rejected for
C10_Witness ==
    \E p \in Procs :
        /\ C10_Case(p) /\ pc[p] = "done"
        /\ error[p].error = "access_denied"
        /\ Called(p, "get_default_redirect_uri")

\* C1 (as claimed): once a token has been returned for an issued
\* authorization code, a later create_token_response presenting the same code
\* returns the InvalidGrant error and no token.
C1_SecondRedemptionFails ==
    \A p \in Procs :
        (/\ entry[p] = "token" /\ pc[p] = "done"
         /\ request[p].code \in code_store.live \cup code_store.used
         /\ prior[p] >= 1)
        => response[p] = error_json(InvalidGrantError)

\* the redirects to uri that carry the items of dict d, in any of their orders
Redirects(uri, d, fragment) ==
    { add_params_to_uri(uri, items, fragment) : items \in Items(d) }

\* the responses handler p can build from the artifact created for its own
\* request
OwnResponse(p) ==
    CASE entry[p] = "code_authorization" ->
             Redirects(request[p].redirect_uri, created[p], FALSE)
      [] entry[p] = "implicit_authorization" ->
             Redirects(request[p].redirect_uri,
                       token_handler(handler[p], created[p]), TRUE)
      [] OTHER -> {json_dumps(token_handler(handler[p], created[p]))}

\* C3 (as claimed): under every interleaving, a successful response is built
\* from the artifact created for that request, and the token returned by
\* create_token_response carries the scope get_scopes gave for its own
\* client and code.
C3_ResponseFromOwnRequest ==
    \A p \in Procs :
        (Validated(p) /\ pc[p] = "done" /\ error[p] = NoError)
        => /\ response[p] \in OwnResponse(p)
           /\ entry[p] = "token" =>
                  response[p].body.scope =
                      Join(get_scopes(request[p].client, request[p].code))

\* handler p's entry point has returned after a successful validation
Succeeded(p, name) ==
    entry[p] = name /\ pc[p] = "done" /\ error[p] = NoError

\* handler p's entry point has returned after a failed validation
Failed(p, name) ==
    entry[p] = name /\ pc[p] = "done" /\ error[p] # NoError

\* the value of parameter key in params is value, and key occurs once
OnlyParam(params, key, value) ==
    /\ HasParam(params, key, value)
    /\ \A i \in 1..Len(params) : params[i][1] = key => params[i][2] = value

\* C11: an Authorization Code request that passes validate_request, handled
\* on its own, is answered by a redirect to the request's redirect URI whose
\* query holds the code created for it and, exactly when the request carried
\* a state, a state parameter equal to that state.
C11_CodeAndStateInQuery ==
    \A p \in Procs :
        Succeeded(p, "code_authorization") =>
            /\ response[p].kind = "redirect"
            /\ response[p].uri = request[p].redirect_uri
            /\ OnlyParam(response[p].query, "code", generate_token(generated))
            /\ ~Falsy(received[p].state) =>
                   OnlyParam(response[p].query, "state", received[p].state)
            /\ Falsy(received[p].state) => ~HasKey(response[p].query, "state")

\* C11 witness: a request with a state and no redirect_uri of its own was
\* answered on the client's default redirect URI
C11_Witness ==
    \E p \in Procs :
        /\ Succeeded(p, "code_authorization")
        /\ received[p].state = "xyz"
        /\ received[p].redirect_uri = NoURI
        /\ response[p].uri = AppCb

\* C12: an Implicit request that passes validate_request, handled on its own
\* with the identity token_handler, is answered by a redirect to the
\* request's redirect URI whose fragment holds access_token, expires_in=3600
\* and scope (the resolved scopes joined by spaces), and whose query is empty.
C12_TokenInFragment ==
    \A p \in Procs :
        (Succeeded(p, "implicit_authorization") /\ handler[p] = "identity") =>
            /\ response[p].kind = "redirect"
            /\ response[p].uri = request[p].redirect_uri
            /\ OnlyParam(response[p].fragment, "access_token",
                         generate_token(generated))
            /\ OnlyParam(response[p].fragment, "expires_in", "3600")
            /\ OnlyParam(response[p].fragment, "scope", Join(request[p].scopes))
            /\ response[p].query = <<>>

\* C12 witness: the scope parameter joins two explicitly requested scopes
C12_Witness ==
    \E p \in Procs :
        /\ Succeeded(p, "implicit_authorization") /\ handler[p] = "identity"
        /\ received[p].scopes = <<"read", "write">>
        /\ HasParam(response[p].fragment, "scope", "read write")

\* C13: the delivery channel is fixed per entry point, for success and for
\* failure: the implicit grant answers in the fragment and never in the
\* query, the code grant answers in the query and never in the fragment, and
\* create_token_response returns a JSON body and never a redirect.
C13_ChannelPerEntryPoint ==
    \A p \in Procs :
        pc[p] = "done" =>
            /\ entry[p] = "implicit_authorization" =>
                   /\ response[p].kind = "redirect"
                   /\ response[p].query = <<>>
                   /\ response[p].fragment # <<>>
            /\ entry[p] = "code_authorization" =>
                   /\ response[p].kind = "redirect"
                   /\ response[p].fragment = <<>>
                   /\ response[p].query # <<>>
            /\ entry[p] = "token" => response[p].kind = "json"

\* C13 witness: an implicit request that failed validation was answered with
\* the error in the fragment
C13_Witness ==
    \E p \in Procs :
        /\ Failed(p, "implicit_authorization")
        /\ HasParam(response[p].fragment, "error", "invalid_scope")

\* the number (1-4) of the first check of validate_token_request that request
\* r fails when the backend's outstanding codes are live, 0 when it passes
FirstFailingTokenCheck(r, live) ==
    IF r.grant_type # "authorization_code" THEN 1
    ELSE IF Falsy(r.code) THEN 2
    ELSE IF r.client \notin AuthorizedClients THEN 3
    ELSE IF r.code \notin live THEN 4
    ELSE 0

\* C14: validate_token_request fails with UnsupportedGrantType, InvalidRequest,
\* UnauthorizedClient or InvalidGrant, whichever check fails first in that
\* order, succeeds only when all four pass, and calls validate_code only
\* when the three checks before it have passed.
C14_TokenRequestPriority ==
    [][\A p \in Procs :
          (entry[p] = "none" /\ entry'[p] = "validate_token") =>
              LET k == FirstFailingTokenCheck(received'[p], code_store.live)
              IN  /\ error'[p] =
                        CASE k = 1 -> UnsupportedGrantTypeError
                          [] k = 2 -> InvalidRequestError(None,
                                          "Missing code parameter.")
                          [] k = 3 -> UnauthorizedClientError(None)
                          [] k = 4 -> InvalidGrantError
                          [] OTHER -> NoError
                  /\ calls'[p] =
                        CASE k \in {1, 2} -> <<>>
                          [] k = 3 -> <<"validate_client">>
                          [] OTHER -> <<"validate_client", "validate_code">>
      ]_vars

\* C14 witness: an unauthorized client presented an outstanding code and was
\* rejected as UnauthorizedClient, validate_code not having been called
C14_Witness ==
    \E p \in Procs :
        /\ entry[p] = "validate_token" /\ pc[p] = "done"
        /\ request[p].code \in code_store.live
        /\ error[p] = UnauthorizedClientError(None)
        /\ ~Called(p, "validate_code")

\* the fresh token create_token_response builds for handler p's request
FreshToken(p) ==
    [access_token |-> generate_token(generated - 1),
     refresh_token |-> generate_token(generated),
     expires_in |-> 3600,
     scope |-> Join(get_scopes(request[p].client, request[p].code))]

\* C15: create_token_response, handling a request on its own, copies code and
\* redirect_uri from params, runs validate_request, and returns the error in
\* body form without calling get_scopes or token_handler when that fails, and
\* otherwise the JSON form of token_handler's output on a fresh token with
\* expires_in 3600 and the joined scopes of get_scopes(client, code).
C15_TokenResponse ==
    \A p \in Procs :
        entry[p] = "token" =>
            LET r == Presented(p)
                k == FirstFailingCheck(r)
            IN  /\ request[p].code = received[p].params.code
                /\ received[p].params.redirect_uri # NoURI =>
                       request[p].redirect_uri = received[p].params.redirect_uri
                /\ (k = 0) <=> (error[p] = NoError)
                /\ k > 0 => /\ error[p].error = ErrorOfCheck(k, r)
                            /\ pc[p] = "done"
                            /\ response[p] = error_json(error[p])
                            /\ ~Called(p, "get_scopes")
                            /\ ~Called(p, "token_handler")
                            /\ created[p] = Unset
                /\ (k = 0 /\ pc[p] = "done") =>
                       /\ response[p].kind = "json"
                       /\ response[p].body = token_handler(handler[p], FreshToken(p))
                       /\ response[p].body.expires_in = 3600
                       /\ Called(p, "get_scopes") /\ Called(p, "token_handler")

\* C15 witness: a made-up code was redeemed for a signed token by a client
\* whose recorded scopes are read and write
C15_Witness ==
    \E p \in Procs :
        /\ Succeeded(p, "token") /\ handler[p] = "sign"
        /\ received[p].code = None /\ request[p].code = "forged"
        /\ response[p].body.scope = "read write"
        /\ response[p].body.signature = "sig"

\* the frame of validate_request on handler p's request: the fields other
\* than scopes and redirect_uri are as presented, supplied scopes and a
\* supplied redirect_uri keep their values, and a missing one is either
\* still missing or the backend's default for the client
C16_Frame(p) ==
    LET r == Presented(p)
        q == request[p]
    IN  /\ q.client_id = r.client_id /\ q.response_type = r.response_type
        /\ q.state = r.state /\ q.grant_type = r.grant_type
        /\ q.code = r.code /\ q.client = r.client /\ q.params = r.params
        /\ r.scopes # <<>> => q.scopes = r.scopes
        /\ r.redirect_uri # NoURI => q.redirect_uri = r.redirect_uri
        /\ q.scopes \in {r.scopes, get_default_scopes(r.client_id)}
        /\ q.redirect_uri \in {r.redirect_uri, get_default_redirect_uri(r.client_id)}

\* the frame part of C16 on its own
C16_FrameOnly == \A p \in Procs : Validated(p) => C16_Frame(p)

\* C16 (as claimed): validate_request changes the request only to fill the
\* defaults of scopes and redirect_uri, and when it succeeds both scopes and
\* redirect_uri are populated.
C16_FillsDefaultsOnly ==
    \A p \in Procs :
        Validated(p) =>
            /\ C16_Frame(p)
            /\ error[p] = NoError =>
                   /\ request[p].scopes # <<>>
                   /\ request[p].redirect_uri # NoURI

\* C17 (as claimed): of two create_token_response executions that present the
\* same issued code and both arrived before any token was returned for it,
\* at most one returns a token and the other returns the InvalidGrant error.
C17_OneConcurrentRedemption ==
    \A p, q \in Procs :
        (/\ p # q
         /\ entry[p] = "token" /\ entry[q] = "token"
         /\ pc[p] = "done" /\ pc[q] = "done"
         /\ request[p].code = request[q].code
         /\ request[p].code \in code_store.live \cup code_store.used
         /\ prior[p] = 0 /\ prior[q] = 0)
        => \/ response[p] = error_json(InvalidGrantError)
           \/ response[q] = error_json(InvalidGrantError)

\* the redirect_uri of handler p's request at the moment validation failed
UriAtFailure(p) ==
    IF received[p].redirect_uri # NoURI THEN received[p].redirect_uri
    ELSE IF Called(p, "get_default_redirect_uri")
    THEN get_default_redirect_uri(received[p].client_id)
    ELSE NoURI

\* C18: when validate_request fails in create_authorization_response of
\* either grant, the error is encoded onto the request-supplied redirect_uri
\* if there is one, else onto what get_default_redirect_uri returned if it
\* was called, else onto no URI.
C18_ErrorTarget ==
    \A p \in Procs :
        (Failed(p, "code_authorization") \/ Failed(p, "implicit_authorization"))
        => /\ response[p].kind = "redirect"
           /\ response[p].uri = UriAtFailure(p)
           /\ response[p].uri = request[p].redirect_uri
           /\ (received[p].redirect_uri = NoURI) => (response[p].uri = NoURI)
           /\ HasParam(response[p].query \o response[p].fragment,
                       "error", error[p].error)

\* C18 witness: a supplied redirect URI that validate_redirect_uri rejected
\* is the target of the error redirect
C18_Witness ==
    \E p \in Procs :
        /\ Failed(p, "code_authorization")
        /\ received[p].redirect_uri = OtherCb
        /\ received[p].client_id = "abc"
        /\ error[p].error = "access_denied"
        /\ response[p].uri = OtherCb

\* number of calls of hook h that handler p made
RECURSIVE CountIn(_, _)
CountIn(hooks, h) ==
    IF Len(hooks) = 0 THEN 0
    ELSE (IF Head(hooks) = h THEN 1 ELSE 0) + CountIn(Tail(hooks), h)

\* C19: in a create_authorization_response of the code grant handled on its
\* own, save_authorization_grant is called at most once, only after a
\* successful validation and before the response exists, with the request's
\* client_id and state and the grant created for the request; a successful
\* response carries the code of the grant that was saved.
C19_SavedGrantIsReturned ==
    \A p \in Procs :
        entry[p] = "code_authorization" =>
            /\ Len(saved[p]) = CountIn(calls[p], "save_authorization_grant")
            /\ Len(saved[p]) <= 1
            /\ Len(saved[p]) = 1 =>
                   /\ error[p] = NoError
                   /\ calls[p][Len(calls[p])] = "save_authorization_grant"
                   /\ saved[p][1] = [client_id |-> request[p].client_id,
                                     artifact |-> created[p],
                                     state |-> request[p].state]
            /\ Len(saved[p]) = 0 => (error[p] # NoError \/ response[p] = NoResponse)
            /\ Succeeded(p, "code_authorization") =>
                   /\ Len(saved[p]) = 1
                   /\ OnlyParam(response[p].query, "code", saved[p][1].artifact.code)

\* C19 witness: a grant with a state was saved and its code returned
C19_Witness ==
    \E p \in Procs :
        /\ Succeeded(p, "code_authorization")
        /\ saved[p][1].artifact = [code |-> "tok1", state |-> "xyz"]
        /\ saved[p][1].client_id = "rel"
        /\ HasParam(response[p].query, "code", "tok1")

\* position of the first call of hook h by handler p (0: never called)
FirstCall(p, h) ==
    IF Called(p, h)
    THEN CHOOSE i \in 1..Len(calls[p]) :
             /\ calls[p][i] = h
             /\ \A j \in 1..(i - 1) : calls[p][j] # h
    ELSE 0

\* C20: a failed validation issues nothing: the code grant creates no grant
\* and does not call save_authorization_grant, the implicit grant creates no
\* token and calls neither token_handler nor save_grant; a successful
\* implicit flow, handled on its own, creates the token, then calls
\* token_handler, then save_grant, and saves and returns token_handler's output.
C20_NothingIssuedOnFailure ==
    \A p \in Procs :
        /\ (Validated(p) /\ error[p] # NoError) =>
               /\ created[p] = Unset
               /\ saved[p] = <<>>
               /\ ~Called(p, "save_authorization_grant")
               /\ ~Called(p, "token_handler")
               /\ ~Called(p, "save_grant")
        /\ entry[p] = "implicit_authorization" =>
               /\ Called(p, "token_handler") => created[p] # Unset
               /\ Called(p, "save_grant") =>
                      /\ Called(p, "token_handler")
                      /\ FirstCall(p, "token_handler") < FirstCall(p, "save_grant")
                      /\ saved[p] = << [client_id |-> request[p].client_id,
                                        artifact |-> token_handler(handler[p], created[p]),
                                        state |-> request[p].state] >>
        /\ Succeeded(p, "implicit_authorization") =>
               /\ CountIn(calls[p], "token_handler") = 1
               /\ CountIn(calls[p], "save_grant") = 1
               /\ response[p] \in
                      Redirects(request[p].redirect_uri,
                                token_handler(handler[p], created[p]), TRUE)

\* C20 witness: a signed implicit token was saved and returned
C20_Witness ==
    \E p \in Procs :
        /\ Succeeded(p, "implicit_authorization") /\ handler[p] = "sign"
        /\ saved[p][1].artifact.signature = "sig"
        /\ HasParam(response[p].fragment, "signature", "sig")

====
